---- MODULE Spec2Model ----
(***************************************************************************)
(* Model of GDRT/raster/image_registration.py: the reference Aligner       *)
(* cv2_feature_matcher and the Registration Engine align_two_rasters.      *)
(*                                                                         *)
(* Matrix entries are exact rationals <<numerator, denominator>> (lowest   *)
(* terms, positive denominator): numpy's float64 products and inverses are *)
(* modelled by the exact values they approximate.                          *)
(***************************************************************************)
EXTENDS Integers, Sequences, FiniteSets, TLC

(***************************************************************************)
(* Exact arithmetic                                                        *)
(***************************************************************************)
Abs(x) == IF x < 0 THEN -x ELSE x

RECURSIVE Gcd(_, _)
Gcd(a, b) == IF b = 0 THEN a ELSE CHOOSE g \in {Gcd(x[1], x[2]) : x \in {<<b, a % b>>}} : TRUE

\* n/d in lowest terms.  (Operands are bound as members of singleton sets
\* so that each is evaluated once.)
Rat(n, d) ==
    CHOOSE r \in { <<(x[3] * x[1]) \div x[4], (x[3] * x[2]) \div x[4]>> :
                   x \in { <<y[1], y[2], IF y[2] < 0 THEN -1 ELSE 1,
                             Gcd(Abs(y[1]), Abs(y[2]))>> : y \in {<<n, d>>} } } : TRUE

R(n) == <<n, 1>>
RAdd(p, q) == CHOOSE r \in {Rat(x[1] * y[2] + y[1] * x[2], x[2] * y[2]) : x \in {p}, y \in {q}} : TRUE
RSub(p, q) == CHOOSE r \in {Rat(x[1] * y[2] - y[1] * x[2], x[2] * y[2]) : x \in {p}, y \in {q}} : TRUE
RMul(p, q) == CHOOSE r \in {Rat(x[1] * y[1], x[2] * y[2]) : x \in {p}, y \in {q}} : TRUE
RDiv(p, q) == CHOOSE r \in {Rat(x[1] * y[2], x[2] * y[1]) : x \in {p}, y \in {q}} : TRUE
RNeg(p) == CHOOSE r \in {<<-x[1], x[2]>> : x \in {p}} : TRUE

(***************************************************************************)
(* numpy values: None, 3x3 arrays, and the operations the code applies     *)
(***************************************************************************)
\* None is the empty tuple and a raised exception a one-element tuple, so that
\* either compares with an array (a tuple of rows) without a type clash.
None == <<>>
LinAlgError == <<"LinAlgError">>
ValueError == <<"ValueError">>
IOError == <<"IOError">>

\* A 3x3 array from integer rows.
Mat(r1, r2, r3) ==
    LET row(r) == <<R(r[1]), R(r[2]), R(r[3])>>
    IN  <<row(r1), row(r2), row(r3)>>

Identity == Mat(<<1, 0, 0>>, <<0, 1, 0>>, <<0, 0, 1>>)

Dot(u, v) == RAdd(RAdd(RMul(u[1], v[1]), RMul(u[2], v[2])), RMul(u[3], v[3]))

\* A @ B for two 3x3 arrays.  (The operands are bound as members of
\* singleton sets so that each is evaluated once.)
matmul(A, B) ==
    CHOOSE P \in { [i \in 1..3 |-> [j \in 1..3 |->
                       Dot(a[i], <<b[1][j], b[2][j], b[3][j]>>)]] :
                   a \in {A}, b \in {B} } : TRUE

Others(i) == CASE i = 1 -> <<2, 3>> [] i = 2 -> <<1, 3>> [] OTHER -> <<1, 2>>

\* The determinant of the 2x2 array left by deleting row r and column c.
Minor(A, r, c) ==
    LET rs == Others(r)
        cs == Others(c)
    IN  RSub(RMul(A[rs[1]][cs[1]], A[rs[2]][cs[2]]),
             RMul(A[rs[1]][cs[2]], A[rs[2]][cs[1]]))

Cofactor(A, r, c) ==
    IF (r + c) % 2 = 0 THEN Minor(A, r, c) ELSE RNeg(Minor(A, r, c))

Det(A) ==
    CHOOSE d \in { Dot(a[1], <<Cofactor(a, 1, 1), Cofactor(a, 1, 2), Cofactor(a, 1, 3)>>) :
                   a \in {A} } : TRUE

\* An inverse that answers a singular array with zeros instead of raising.
inv_no_raise(A) ==
    CHOOSE P \in { IF d[1] = 0
                   THEN [i \in 1..3 |-> [j \in 1..3 |-> R(0)]]
                   ELSE [i \in 1..3 |-> [j \in 1..3 |-> RDiv(Cofactor(a, j, i), d)]] :
                   a \in {A}, d \in {Det(A)} } : TRUE

\* np.linalg.inv: the inverse, or LinAlgError for a singular array.
inv(A) ==
    CHOOSE P \in { IF d[1] = 0
                   THEN LinAlgError
                   ELSE [i \in 1..3 |-> [j \in 1..3 |-> RDiv(Cofactor(a, j, i), d)]] :
                   a \in {A}, d \in {Det(A)} } : TRUE

(***************************************************************************)
(* cv2_feature_matcher (lines 17-72)                                       *)
(***************************************************************************)
DefaultMinMatchCount == 10
RatioNum == 7
RatioDen == 10

\* A match is <<m.distance, n.distance>>: the descriptor distances of the
\* nearest and second nearest neighbour.  Lowe's test m < 0.7 * n.
PassesRatio(mn) == RatioDen * mn[1] < RatioNum * mn[2]

good(matches) == SelectSeq(matches, PassesRatio)

\* np.concatenate((M, [[0, 0, 1]])) for a 2x3 fit M; ValueError for M = None.
concatenate(M) ==
    IF M = None THEN ValueError ELSE Mat(M[1], M[2], <<0, 0, 1>>)

\* The diagnostic block with a slip that stores the drawn outline in M.
visualize_overwrites_M(M, img1, vis_matches) ==
    IF ~vis_matches
    THEN [raised |-> None, M |-> M, img2_drawn |-> FALSE]
    ELSE IF img1 # 1
         THEN [raised |-> ValueError, M |-> M, img2_drawn |-> FALSE]
         ELSE [raised |-> None, M |-> matmul(M, M), img2_drawn |-> TRUE]

\* The diagnostic block: img1 is the number of channels of the fixed chip
\* (h, w = img1.shape needs a 2-D array); the outline is drawn on img2.
visualize(M, img1, vis_matches) ==
    IF ~vis_matches
    THEN [raised |-> None, M |-> M, img2_drawn |-> FALSE]
    ELSE IF img1 # 1
         THEN [raised |-> ValueError, M |-> M, img2_drawn |-> FALSE]
         ELSE [raised |-> None, M |-> M, img2_drawn |-> TRUE]

\* The whole function.  matches is flann.knnMatch's result and est the M of
\* cv2.estimateAffinePartial2D (a 2x3 fit, or None when it finds none).
cv2_feature_matcher(img1, matches, est, min_match_count, vis_matches) ==
    LET k == Len(good(matches))
    IN  IF k > min_match_count
        THEN LET M == concatenate(est)
             IN  IF M = ValueError
                 THEN [raised |-> ValueError, line |-> 48, ret |-> None,
                       printed |-> <<>>, img2_drawn |-> FALSE]
                 ELSE LET v == visualize(M, img1, vis_matches)
                      IN  IF v.raised # None
                          THEN [raised |-> v.raised, line |-> 56, ret |-> None,
                                printed |-> <<>>, img2_drawn |-> FALSE]
                          ELSE [raised |-> None, line |-> 72, ret |-> v.M,
                                printed |-> <<>>, img2_drawn |-> v.img2_drawn]
        ELSE [raised |-> None, line |-> 52, ret |-> None,
              printed |-> <<[count |-> k, required |-> min_match_count]>>,
              img2_drawn |-> FALSE]

(***************************************************************************)
(* Files, rasters and the external collaborators                           *)
(***************************************************************************)
MaxCalls == 2
MaxGood == 12
SmallMinMatchCount == 2

\* A path is the tuple of its components.
FixedPath == <<"data", "fixed.tif">>
MovingPath == <<"data", "moving.tif">>
OutPath == <<"out", "registered.tif">>
Paths == {FixedPath, MovingPath, OutPath}
parent(p) == SubSeq(p, 1, Len(p) - 1)

NoFile == [exists |-> FALSE, pixels |-> "", crs |-> <<>>, transform |-> <<>>]
Raster(px, crs, t) == [exists |-> TRUE, pixels |-> px, crs |-> crs, transform |-> t]
isfile(fsys, p) == fsys[p].exists

\* rasterio's Affine(a, b, c, d, e, f): c is the x (east-west) offset of the
\* origin and f its y (north-south) offset.
Affine(a, b, c, d, e, f) == <<R(a), R(b), R(c), R(d), R(e), R(f)>>
AffineC(t) == t[3]
AffineF(t) == t[6]
AffineToArray(t) == <<<<t[1], t[2], t[3]>>, <<t[4], t[5], t[6]>>, <<R(0), R(0), R(1)>>>>

UTM10N == <<"EPSG:32610">>
WGS84 == <<"EPSG:4326">>
is_projected(crs) == crs = UTM10N

\* GDRT.geospatial_utils.get_projected_CRS: a projected CRS for a place.
get_projected_CRS(lat, lon) == <<"projected CRS at", lat, lon>>

\* GDRT.raster.utils.load_geospatial_crop when it succeeds: the chip, the
\* window's Transform and the source raster's own georeferencing Transform.
load_geospatial_crop(fsys, filename, window_transform) ==
    <<fsys[filename].pixels, window_transform, AffineToArray(fsys[filename].transform)>>

FixedTransform == Affine(1, 0, -121, 0, -1, 39)
MovingTransform == Affine(2, 0, 10, 0, -2, 50)
Crop == Mat(<<2, 0, 3>>, <<0, 2, 4>>, <<0, 0, 1>>)
ZeroAreaWindow == Mat(<<0, 0, 10>>, <<0, 0, 50>>, <<0, 0, 1>>)

\* The window Transforms the loader may return for a raster georeferenced by D.
WindowTransforms(D) == {Identity, D, matmul(D, Crop), ZeroAreaWindow}

RegionsOfInterest == {None, <<"roi">>}
TargetGSDs == {None, R(1)}
Outputs == {None, OutPath, MovingPath}

\* The 2x3 fits cv2.estimateAffinePartial2D may return, and None.
Fits == { <<<<1, 0, 0>>, <<0, 1, 0>>>>,
          <<<<0, -1, 5>>, <<1, 0, 0>>>> }
Estimates == Fits \cup {None}

NotCalled == <<"not called">>

GoodMatch == <<6, 10>>
EdgeMatch == <<7, 10>>
BadMatch == <<9, 10>>

RECURSIVE Repeat(_, _)
Repeat(x, n) == IF n = 0 THEN <<>> ELSE <<x>> \o Repeat(x, n - 1)

MinMatchCounts == {DefaultMinMatchCount, SmallMinMatchCount}
\* knnMatch results with one fewer, exactly and one more than minimum
\* correspondences that pass the ratio test, and two that do not.
MatchLists(minimum) ==
    { Repeat(GoodMatch, k) \o <<EdgeMatch, BadMatch>> :
        k \in {minimum - 1, minimum, minimum + 1} }

\* What the estimator returns in a call of the aligner on these matches.
EstimatesFor(matches, minimum) ==
    IF Len(good(matches)) > minimum THEN Estimates ELSE {NotCalled}

(***************************************************************************)
(* align_two_rasters (lines 75-167)                                        *)
(***************************************************************************)
\* inv(moving_dataset_transform) @ moving_window_transform
w2d_px_transform(D, W) ==
    LET Dinv == inv(D)
    IN  IF Dinv = LinAlgError THEN LinAlgError ELSE matmul(Dinv, W)

\* The conjugation the other way round: inv(w2d) @ chip2chip @ w2d.
dataset_pixel_transform_inverted(w2d, chip2chip) ==
    IF chip2chip = None
    THEN ValueError
    ELSE LET inverse == inv(w2d)
         IN  IF inverse = LinAlgError
             THEN LinAlgError
             ELSE matmul(matmul(inverse, chip2chip), w2d)

\* The conjugation with the inverse forgotten: w2d @ chip2chip @ w2d.
dataset_pixel_transform_no_inverse(w2d, chip2chip) ==
    IF chip2chip = None
    THEN ValueError
    ELSE IF inv(w2d) = LinAlgError
         THEN LinAlgError
         ELSE matmul(matmul(w2d, chip2chip), w2d)

\* A failed alignment taken for "no correction".
dataset_pixel_transform_none_as_identity(w2d, chip2chip) ==
    LET inverse == inv(w2d)
    IN  IF inverse = LinAlgError
        THEN LinAlgError
        ELSE IF chip2chip = None
             THEN Identity
             ELSE matmul(matmul(w2d, chip2chip), inverse)

\* w2d @ chip2chip @ inv(w2d): the left product is evaluated first, and
\* numpy rejects a None operand.
dataset_pixel_transform(w2d, chip2chip) ==
    IF chip2chip = None
    THEN ValueError
    ELSE LET inverse == inv(w2d)
         IN  IF inverse = LinAlgError
             THEN LinAlgError
             ELSE matmul(matmul(w2d, chip2chip), inverse)

\* updated_moving_dataset_transform[:2].flatten() as an Affine
first_two_rows(A) == <<A[1][1], A[1][2], A[1][3], A[2][1], A[2][2], A[2][3]>>

\* The copy made whether or not the output exists.
needs_copy_always(fsys, output) == TRUE

\* not os.path.isfile(output_filename)
needs_copy(fsys, output) == ~isfile(fsys, output)

VARIABLES
    fs,                 \* the rasters on disk, by path
    dirs,               \* the directories on disk
    copies,             \* how often shutil.copy has written each path
    ncalls,             \* calls of align_two_rasters so far
    pc,                 \* position of the current call
    fs0, dirs0,         \* the disk when the current call began
    working_CRS,
    region_of_interest,
    target_GSD,
    loads,              \* the calls of load_geospatial_crop, in order
    moving_window_transform,
    moving_dataset_transform,
    aligner,            \* a call of cv2_feature_matcher on its own, as <<record>>
    aligner_calls,
    chip2chip_pixel_transform,
    stdout,
    updated_moving_dataset_transform,
    output_filename,
    outcome,            \* "running", "returned" or "raised"
    exc,                \* the exception raised, and the line raising it
    ret                 \* the value returned

disk == <<fs, dirs, copies>>
crop == <<working_CRS, region_of_interest, target_GSD, loads,
          moving_window_transform, moving_dataset_transform>>
estimate == <<aligner, aligner_calls, chip2chip_pixel_transform, stdout>>
result == <<updated_moving_dataset_transform, output_filename, outcome, exc, ret>>
vars == <<disk, ncalls, pc, fs0, dirs0, crop, estimate, result>>

NoCall ==
    /\ pc = "idle"
    /\ working_CRS = None
    /\ region_of_interest = None
    /\ target_GSD = None
    /\ loads = <<>>
    /\ moving_window_transform = None
    /\ moving_dataset_transform = None
    /\ aligner = <<>>
    /\ aligner_calls = 0
    /\ chip2chip_pixel_transform = None
    /\ stdout = <<>>
    /\ updated_moving_dataset_transform = None
    /\ output_filename = None
    /\ outcome = "running"
    /\ exc = <<>>
    /\ ret = None

Init ==
    /\ \E fixed_crs \in {UTM10N, WGS84}, present \in BOOLEAN :
        /\ fs = [p \in Paths |->
                    CASE p = FixedPath -> Raster("fixed pixels", fixed_crs, FixedTransform)
                      [] p = MovingPath -> Raster("moving pixels", UTM10N, MovingTransform)
                      [] OTHER -> IF present
                                  THEN Raster("other pixels", UTM10N, FixedTransform)
                                  ELSE NoFile]
        /\ dirs = IF present THEN {<<"data">>, <<"out">>} ELSE {<<"data">>}
    /\ copies = [p \in Paths |-> 0]
    /\ ncalls = 0
    /\ fs0 = fs
    /\ dirs0 = dirs
    /\ NoCall

Raise(e, line) ==
    /\ pc' = "done"
    /\ outcome' = "raised"
    /\ exc' = <<e, line>>

\* Lines 99-107: the working CRS from the fixed dataset.
ResolveCRS ==
    /\ pc = "idle"
    /\ ncalls < MaxCalls
    /\ ncalls' = ncalls + 1
    /\ fs0' = fs
    /\ dirs0' = dirs
    /\ LET fixed_dataset == fs[FixedPath]
       IN  working_CRS' =
               IF is_projected(fixed_dataset.crs)
               THEN fixed_dataset.crs
               ELSE get_projected_CRS(AffineC(fixed_dataset.transform),
                                      AffineF(fixed_dataset.transform))
    /\ pc' = "load_fixed"
    /\ UNCHANGED <<disk, region_of_interest, target_GSD, loads,
                   moving_window_transform, moving_dataset_transform,
                   estimate, result>>

\* Lines 111-116: the fixed chip.
LoadFixed ==
    /\ pc = "load_fixed"
    /\ \E roi \in RegionsOfInterest, gsd \in TargetGSDs, ok \in BOOLEAN :
        /\ region_of_interest' = roi
        /\ target_GSD' = gsd
        /\ loads' = Append(loads, [filename |-> FixedPath, region_of_interest |-> roi,
                                   target_CRS |-> working_CRS, target_GSD |-> gsd])
        /\ IF ok
           THEN pc' = "load_moving" /\ UNCHANGED <<outcome, exc>>
           ELSE Raise(IOError, 111)
    /\ UNCHANGED <<disk, ncalls, fs0, dirs0, working_CRS, moving_window_transform,
                   moving_dataset_transform, estimate,
                   updated_moving_dataset_transform, output_filename, ret>>

\* Lines 118-127: the moving chip and its two Transforms.
LoadMoving ==
    /\ pc = "load_moving"
    /\ loads' = Append(loads, [filename |-> MovingPath,
                               region_of_interest |-> region_of_interest,
                               target_CRS |-> working_CRS,
                               target_GSD |-> target_GSD])
    /\ \E ok \in BOOLEAN :
        IF ok
        THEN \E W \in WindowTransforms(AffineToArray(fs[MovingPath].transform)) :
                LET loaded == load_geospatial_crop(fs, MovingPath, W)
                IN  /\ moving_window_transform' = loaded[2]
                    /\ moving_dataset_transform' = loaded[3]
                    /\ pc' = "align"
                    /\ UNCHANGED <<outcome, exc>>
        ELSE /\ Raise(IOError, 122)
             /\ UNCHANGED <<moving_window_transform, moving_dataset_transform>>
    /\ UNCHANGED <<disk, ncalls, fs0, dirs0, working_CRS, region_of_interest,
                   target_GSD, estimate, updated_moving_dataset_transform,
                   output_filename, ret>>

\* Lines 129-143: the chips made single-channel when grayscale is set, and the
\* aligner called on them with aligner_kwargs.
Align ==
    /\ pc = "align"
    /\ \E grayscale \in BOOLEAN, vis_matches \in BOOLEAN,
          min_match_count \in MinMatchCounts :
        \E matches \in MatchLists(min_match_count) :
          \E est \in EstimatesFor(matches, min_match_count) :
            LET img1 == IF grayscale THEN 1 ELSE 3
                out == cv2_feature_matcher(img1, matches, est, min_match_count, vis_matches)
            IN  /\ aligner_calls' = aligner_calls + 1
                /\ stdout' = stdout \o out.printed
                /\ IF out.raised = None
                   THEN /\ chip2chip_pixel_transform' = out.ret
                        /\ pc' = "compose"
                        /\ UNCHANGED <<outcome, exc>>
                   ELSE /\ Raise(out.raised, out.line)
                        /\ UNCHANGED chip2chip_pixel_transform
    /\ UNCHANGED <<disk, ncalls, fs0, dirs0, crop, aligner,
                   updated_moving_dataset_transform, output_filename, ret>>

\* Lines 145-156: the matrix algebra.
Compose ==
    /\ pc = "compose"
    /\ LET w2d == w2d_px_transform(moving_dataset_transform, moving_window_transform)
       IN  IF w2d = LinAlgError
           THEN Raise(LinAlgError, 147) /\ UNCHANGED updated_moving_dataset_transform
           ELSE LET dpt == dataset_pixel_transform(w2d, chip2chip_pixel_transform)
                IN  IF dpt \in {ValueError, LinAlgError}
                    THEN Raise(dpt, 151) /\ UNCHANGED updated_moving_dataset_transform
                    ELSE /\ updated_moving_dataset_transform' =
                                matmul(moving_dataset_transform, dpt)
                         /\ pc' = "persist"
                         /\ UNCHANGED <<outcome, exc>>
    /\ UNCHANGED <<disk, ncalls, fs0, dirs0, crop, estimate, output_filename, ret>>

\* Lines 158-167: the optional copy, the rewritten georeferencing, the return.
Persist ==
    /\ pc = "persist"
    /\ \E output \in Outputs :
        /\ output_filename' = output
        /\ IF output = None
           THEN UNCHANGED disk
           ELSE LET copied == IF needs_copy(fs, output)
                              THEN [fs EXCEPT ![output] = fs[MovingPath]]
                              ELSE fs
                IN  /\ dirs' = dirs \cup {parent(output)}
                    /\ copies' = IF needs_copy(fs, output)
                                 THEN [copies EXCEPT ![output] = @ + 1]
                                 ELSE copies
                    /\ fs' = [copied EXCEPT ![output].transform =
                                  first_two_rows(updated_moving_dataset_transform)]
    /\ ret' = updated_moving_dataset_transform
    /\ outcome' = "returned"
    /\ pc' = "done"
    /\ UNCHANGED <<ncalls, fs0, dirs0, crop, estimate,
                   updated_moving_dataset_transform, exc>>

\* The call is over and its frame gone.
Finish ==
    /\ pc = "done"
    /\ pc' = "idle"
    /\ working_CRS' = None
    /\ region_of_interest' = None
    /\ target_GSD' = None
    /\ loads' = <<>>
    /\ moving_window_transform' = None
    /\ moving_dataset_transform' = None
    /\ aligner' = <<>>
    /\ aligner_calls' = 0
    /\ chip2chip_pixel_transform' = None
    /\ stdout' = <<>>
    /\ updated_moving_dataset_transform' = None
    /\ output_filename' = None
    /\ outcome' = "running"
    /\ exc' = <<>>
    /\ ret' = None
    /\ UNCHANGED <<disk, ncalls, fs0, dirs0>>

Next == ResolveCRS \/ LoadFixed \/ LoadMoving \/ Align \/ Compose \/ Persist \/ Finish

Spec == Init /\ [][Next]_vars

(***************************************************************************)
(* cv2_feature_matcher called on its own                                   *)
(***************************************************************************)
CallAligner ==
    /\ pc = "idle"
    /\ \E channels \in {1, 3}, vis_matches \in BOOLEAN,
          min_match_count \in MinMatchCounts, k \in 0..MaxGood :
        LET matches == Repeat(GoodMatch, k) \o <<EdgeMatch, BadMatch>>
        IN  \E est \in EstimatesFor(matches, min_match_count) :
                aligner' = << [img1 |-> channels, matches |-> matches, est |-> est,
                               min_match_count |-> min_match_count,
                               vis_matches |-> vis_matches,
                               out |-> cv2_feature_matcher(channels, matches, est,
                                                           min_match_count, vis_matches)] >>
    /\ UNCHANGED <<disk, ncalls, pc, fs0, dirs0, crop, aligner_calls,
                   chip2chip_pixel_transform, stdout, result>>

AlignerSpec == Init /\ [][CallAligner]_vars

(***************************************************************************)
(* The claims                                                              *)
(***************************************************************************)
AlignmentFailure == <<"AlignmentFailure">>
W == moving_window_transform
D == moving_dataset_transform
C == chip2chip_pixel_transform

\* C1 as stated: a successful call returns D @ W @ C @ W^-1, W and D the two
\* Transforms of the loader used as returned.
C1_AsClaimed ==
    outcome = "returned" =>
        /\ inv(W) # LinAlgError
        /\ ret = matmul(D, matmul(W, matmul(C, inv(W))))

\* C1 amended: a successful call returns D @ w2d @ C @ w2d^-1 where w2d is not
\* the loader's window Transform W itself but D^-1 @ W.
C1_Composition ==
    outcome = "returned" =>
        /\ C # None
        /\ inv(D) # LinAlgError
        /\ inv(matmul(inv(D), W)) # LinAlgError
        /\ ret = matmul(D, matmul(matmul(inv(D), W),
                                  matmul(C, inv(matmul(inv(D), W)))))

C1_Witness ==
    /\ outcome = "returned"
    /\ C # Identity
    /\ W = matmul(D, Crop)
    /\ ret # matmul(D, matmul(W, matmul(C, inv(W))))

\* C2: with the identity from the aligner and a window that is the dataset's
\* own pixel grid (the loader's window Transform is the identity, or the
\* window-to-dataset Transform the code derives from it is), a successful
\* call returns the moving raster's own pixel-to-world Transform.
C2_NoOpFixedPoint ==
    (/\ outcome = "returned"
     /\ C = Identity
     /\ (W = Identity \/ matmul(inv(D), W) = Identity)) =>
        /\ ret = D
        /\ ret = AffineToArray(fs0[MovingPath].transform)

C2_Witness ==
    /\ outcome = "returned"
    /\ C = Identity
    /\ W = Identity
    /\ D # Identity
    /\ ret = D

\* C3 as stated: when fewer than min_match_count correspondences passed the
\* ratio test, the call ends with the aligner's failure itself (its value
\* returned as it is, or an alignment failure raised), no other error.
C3_FailurePropagated ==
    (/\ pc = "done"
     /\ stdout # <<>>
     /\ stdout[1].count < stdout[1].required) =>
        \/ outcome = "returned" /\ ret = None
        \/ outcome = "raised" /\ exc[1] = AlignmentFailure

\* C4 as stated: the aligner reports too few matches exactly when the number
\* passing the ratio test is below the minimum, and calls the estimator for
\* every number from the minimum on.
C4_FailsIffBelowMinimum ==
    \A i \in 1..Len(aligner) :
        LET a == aligner[i]
            k == Len(good(a.matches))
            insufficient == a.out.raised = None /\ a.out.ret = None /\ a.out.printed # <<>>
        IN  /\ insufficient <=> k < a.min_match_count
            /\ k >= a.min_match_count => a.est # NotCalled

\* C5: a call that reaches the inversion with a singular window Transform
\* ends with the singular-matrix error, without a corrected Transform, a
\* return value or a change on disk.
C5_SingularWindow ==
    (/\ pc = "done"
     /\ C # None
     /\ Det(W)[1] = 0) =>
        /\ outcome = "raised"
        /\ exc[1] = LinAlgError
        /\ updated_moving_dataset_transform = None
        /\ ret = None
        /\ fs = fs0
        /\ dirs = dirs0

C5_Witness ==
    /\ pc = "done"
    /\ C # None
    /\ W = ZeroAreaWindow
    /\ exc = <<LinAlgError, 151>>

C7_DegenerateFitReported ==
    \A i \in 1..Len(aligner) :
        aligner[i].est = None =>
            /\ aligner[i].out.raised = None
            /\ aligner[i].out.ret = None

\* C8: a call that raises has changed nothing on disk and returned nothing;
\* the disk changes or a Transform is returned only in a call whose two
\* loads, alignment and inversion all succeeded; and no step is repeated.
C8_NoPartialResult ==
    pc # "idle" =>
        /\ outcome = "raised" =>
               /\ fs = fs0
               /\ dirs = dirs0
               /\ ret = None
               /\ output_filename = None
        /\ (fs # fs0 \/ dirs # dirs0 \/ ret # None) =>
               /\ outcome = "returned"
               /\ Len(loads) = 2
               /\ C # None
               /\ inv(matmul(inv(D), W)) # LinAlgError
        /\ Len(loads) <= 2
        /\ aligner_calls <= 1

C8_Witness ==
    /\ pc = "done"
    /\ exc = <<ValueError, 151>>
    /\ ~isfile(fs, OutPath)
    /\ dirs = {<<"data">>}

\* C9: on single-channel chips the aligner returns the same value, or raises
\* the same, with vis_matches set and unset.
C9_VisNoEffect ==
    \A i \in 1..Len(aligner) :
        LET a == aligner[i]
            other == cv2_feature_matcher(a.img1, a.matches, a.est,
                                         a.min_match_count, ~a.vis_matches)
        IN  a.img1 = 1 =>
                /\ a.out.ret = other.ret
                /\ a.out.raised = other.raised

C9_Witness ==
    /\ aligner # <<>>
    /\ aligner[1].img1 = 1
    /\ aligner[1].vis_matches
    /\ aligner[1].out.img2_drawn
    /\ aligner[1].out.ret \notin {None, Identity}

\* C10 as stated: both loads get the one working CRS, region of interest and
\* target GSD, and the working CRS is the fixed raster's own when projected,
\* else computed with lat from the y offset and lon from the x offset of the
\* fixed raster's transform.
C10_WorkingCRS ==
    Len(loads) = 2 =>
        /\ loads[1].target_CRS = working_CRS
        /\ loads[2].target_CRS = working_CRS
        /\ loads[1].target_GSD = loads[2].target_GSD
        /\ loads[1].region_of_interest = loads[2].region_of_interest
        /\ working_CRS =
               IF is_projected(fs0[FixedPath].crs)
               THEN fs0[FixedPath].crs
               ELSE get_projected_CRS(AffineF(fs0[FixedPath].transform),
                                      AffineC(fs0[FixedPath].transform))

====
